---- MODULE Spec2Model ----
(***************************************************************************)
(* MolBERT: the fine-tuning model's test-time hooks                        *)
(* (molbert/models/finetune.py) and the application bootstrap              *)
(* (molbert/apps/base.py).                                                 *)
(*                                                                         *)
(* A tensor with one row per example is a sequence of runs [of, lo, hi]:   *)
(* the rows <<of, lo>>, ..., <<of, hi>>, where <<"y_hat", x>> is the       *)
(* prediction for, and <<"label", x>> the label of, example x of the test  *)
(* partition.                                                              *)
(* Python dicts are insertion-ordered sequences of [key, val] entries.     *)
(* Floats are [nan, tenths]: NaN, or the number tenths/10.                 *)
(***************************************************************************)
EXTENDS Integers, Sequences, FiniteSets, TLC

VARIABLES
    hparams,            \* self.hparams
    config,             \* what get_config last returned
    testSize,           \* len(self.datasets['test'])
    metricLib,          \* what each torchmetrics call does on the evaluated data
    pending,            \* batches the test dataloader has yet to deliver
    ckpt_path,          \* self.trainer.ckpt_path
    test_step_outputs,  \* self.test_step_outputs
    files,              \* the metrics.json files on disk, by path
    last,               \* the last hook call: [op, status, exc]
    ret,                \* what the last hook call returned
    evalCall,           \* the evaluate_metrics call the last hook call made, if any, and
                        \* the batches test_step was given since the call before it
    outputsAtCall,      \* test_step_outputs when the last hook call began
    passLog,            \* batches given to test_step since the last on_test_epoch_end call
    app,                \* the application object: which hooks its class overrides
    pc,                 \* position inside BaseMolbertApp.run
    args,               \* the Namespace parse_args returned
    events,             \* the collaborator calls run has made, in order
    runResult,          \* how run ended and what it returned
    params,             \* the model's state_dict
    lmw                 \* the last load_model_weights call

vars == <<hparams, config, testSize, metricLib, pending, ckpt_path, test_step_outputs,
          files, last, ret, evalCall, outputsAtCall, passLog,
          app, pc, args, events, runResult, params, lmw>>

modelVars == <<testSize, metricLib, pending, ckpt_path, test_step_outputs,
               files, last, ret, evalCall, outputsAtCall, passLog>>
configVars == <<hparams, config>>
appVars == <<app, pc, args, events, runResult, params, lmw>>

----------------------------------------------------------------------------
(* Bounds of the model *)

\* test_step is not called once the accumulator holds this many records
MaxRecords == 2

(* Program constants *)
BatchSize == 1024
JsonIndent == 4
DefaultVocabSize == 42

----------------------------------------------------------------------------
(* Values *)

NaN == [nan |-> TRUE, tenths |-> 0]
Num(t) == [nan |-> FALSE, tenths |-> t]

NoPath == [some |-> FALSE, path |-> <<>>]
SomePath(p) == [some |-> TRUE, path |-> p]

Entry(k, v) == [key |-> k, val |-> v]
KeySet(d) == {d[i].key : i \in 1..Len(d)}
Get(d, k) == d[CHOOSE i \in 1..Len(d) : d[i].key = k].val

\* out[name] = v on a dict: replaces in place, or appends a new key
DictSet(d, k, v) ==
    IF k \in KeySet(d)
    THEN [i \in 1..Len(d) |-> IF d[i].key = k THEN Entry(k, v) ELSE d[i]]
    ELSE Append(d, Entry(k, v))

----------------------------------------------------------------------------
(* test_dataloader, test_step *)

\* the batches a DataLoader(dataset of n examples, batch_size) delivers: consecutive
\* index ranges of batch_size examples, the last one shorter, none when n = 0
DataLoaderBatches(n, batch_size) ==
    [b \in 1..((n + batch_size - 1) \div batch_size) |->
        [lo |-> (b - 1) * batch_size + 1,
         hi |-> IF b * batch_size < n THEN b * batch_size ELSE n]]

test_dataloader(n) == DataLoaderBatches(n, BatchSize)

Run(of, lo, hi) == [of |-> of, lo |-> lo, hi |-> hi]

\* the number of rows of a tensor, and its i-th row
RECURSIVE TLen(_)
TLen(t) == IF t = <<>> THEN 0 ELSE (Head(t).hi - Head(t).lo + 1) + TLen(Tail(t))
RECURSIVE Row(_, _)
Row(t, i) ==
    IF i <= Head(t).hi - Head(t).lo + 1
    THEN <<Head(t).of, Head(t).lo + i - 1>>
    ELSE Row(Tail(t), i - (Head(t).hi - Head(t).lo + 1))

\* the batch of an index range: ((batch_inputs, batch_labels), mask)
Batch(r) ==
    [inputs |-> <<Run("input", r.lo, r.hi)>>,
     labels |-> [finetune |-> <<Run("label", r.lo, r.hi)>>],
     mask   |-> <<Run("true", r.lo, r.hi)>>]

\* self.forward(batch_inputs): one prediction row per input, keyed by task name
forward(batch_inputs) ==
    [finetune |-> [k \in 1..Len(batch_inputs) |->
                      Run("y_hat", batch_inputs[k].lo, batch_inputs[k].hi)]]

\* outputs = dict(predictions=y_hat, labels=batch_labels)
StepOutputs(batch) == [predictions |-> forward(batch.inputs), labels |-> batch.labels]

----------------------------------------------------------------------------
(* evaluate_metrics *)

ClassificationMetrics == <<"AUROC", "AveragePrecision", "Accuracy", "F1">>
RegressionMetrics == <<"MAE", "RMSE", "MSE", "R2">>
MetricNames(mode) == IF mode = "classification" THEN ClassificationMetrics ELSE RegressionMetrics
MetricNameSet(mode) == {MetricNames(mode)[i] : i \in 1..Len(MetricNames(mode))}

\* what a metric call does: raises, or returns a tensor whose .item() is val
MetricValue(name) ==
    CASE name = "AUROC" -> Num(5)
      [] name = "AveragePrecision" -> Num(10)
      [] name = "Accuracy" -> Num(0)
      [] name = "F1" -> Num(7)
      [] name = "MAE" -> Num(3)
      [] name = "RMSE" -> Num(125)
      [] name = "MSE" -> Num(1562)
      [] name = "R2" -> Num(-15)
MetricOutcomes(name) == {[raises |-> TRUE, val |-> NaN], [raises |-> FALSE, val |-> MetricValue(name)]}
MetricLibs(mode) ==
    {lib \in [MetricNameSet(mode) -> [raises : BOOLEAN, val : {NaN} \cup {MetricValue(n) : n \in MetricNameSet(mode)}]] :
        \A n \in MetricNameSet(mode) : lib[n] \in MetricOutcomes(n)}

\* a faulty variant: no except clause value, the raising metric's entry is dropped
TryMetricNoSentinel(out, name, outcome) ==
    IF outcome.raises THEN out ELSE DictSet(out, name, outcome.val)

\* the body of the loop: try: out[name] = callable_metric().item()
\*                       except Exception: out[name] = np.nan
TryMetric(out, name, outcome) ==
    IF outcome.raises THEN DictSet(out, name, NaN) ELSE DictSet(out, name, outcome.val)

RECURSIVE MetricLoop(_, _, _)
MetricLoop(out, names, lib) ==
    IF names = <<>> THEN out
    ELSE MetricLoop(TryMetric(out, Head(names), lib[Head(names)]), Tail(names), lib)

evaluate_metrics(mode, lib) == MetricLoop(<<>>, MetricNames(mode), lib)

----------------------------------------------------------------------------
(* json.dump(metrics, f, indent=4) and json.load *)

DigitChars == <<"0", "1", "2", "3", "4", "5", "6", "7", "8", "9">>

RECURSIVE IntChars(_)
IntChars(n) == IF n < 10 THEN <<DigitChars[n + 1]>> ELSE Append(IntChars(n \div 10), DigitChars[(n % 10) + 1])

Abs(t) == IF t < 0 THEN -t ELSE t

\* float.__repr__ as the JSON encoder uses it, NaN written as the token NaN
FloatRepr(v) ==
    IF v.nan THEN <<"N", "a", "N">>
    ELSE (IF v.tenths < 0 THEN <<"-">> ELSE <<>>)
         \o IntChars(Abs(v.tenths) \div 10) \o <<".">> \o <<DigitChars[(Abs(v.tenths) % 10) + 1]>>

JsonLine(ind, k, chars, c) == [indent |-> ind, key |-> k, text |-> chars, comma |-> c]

\* the lines json.dump writes for a dict of floats
JsonDump(d, ind) ==
    IF d = <<>> THEN <<JsonLine(0, "", <<"{", "}">>, FALSE)>>
    ELSE <<JsonLine(0, "", <<"{">>, FALSE)>>
         \o [i \in 1..Len(d) |-> JsonLine(ind, d[i].key, FloatRepr(d[i].val), i < Len(d))]
         \o <<JsonLine(0, "", <<"}">>, FALSE)>>

DigitValue(c) == (CHOOSE i \in 1..10 : DigitChars[i] = c) - 1


RECURSIVE CharsInt(_)
CharsInt(cs) == IF cs = <<>> THEN 0 ELSE 10 * CharsInt(SubSeq(cs, 1, Len(cs) - 1)) + DigitValue(cs[Len(cs)])

\* the float a JSON number token (or NaN) parses to
ParseFloat(cs) ==
    IF cs = <<"N", "a", "N">> THEN NaN
    ELSE LET neg  == cs # <<>> /\ cs[1] = "-"
             body == IF neg THEN Tail(cs) ELSE cs
             dot  == CHOOSE i \in 1..Len(body) : body[i] = "."
             mag  == 10 * CharsInt(SubSeq(body, 1, dot - 1)) + DigitValue(body[dot + 1])
         IN Num(IF neg THEN -mag ELSE mag)

WellFormedJson(lines) ==
    /\ Len(lines) >= 2
    /\ lines[1].text = <<"{">>
    /\ lines[Len(lines)].text = <<"}">>
    /\ \A i \in 2..(Len(lines) - 1) : lines[i].comma = (i < Len(lines) - 1)

\* json.load of a file json.dump wrote: the dict in file order, a repeated key keeping
\* the last value
RECURSIVE JsonEntries(_, _)
JsonEntries(d, lines) ==
    IF lines = <<>> THEN d
    ELSE JsonEntries(DictSet(d, Head(lines).key, ParseFloat(Head(lines).text)), Tail(lines))

JsonLoad(lines) ==
    IF lines = <<JsonLine(0, "", <<"{", "}">>, FALSE)>> THEN <<>>
    ELSE JsonEntries(<<>>, SubSeq(lines, 2, Len(lines) - 1))

----------------------------------------------------------------------------
(* on_test_epoch_end *)

\* a faulty variant: the tensors are joined last to first
RECURSIVE CatReversed(_)
CatReversed(tensors) == IF tensors = <<>> THEN <<>> ELSE CatReversed(Tail(tensors)) \o Head(tensors)

\* torch.cat of a non-empty list of tensors along the example axis
RECURSIVE Cat(_)
Cat(tensors) == IF tensors = <<>> THEN <<>> ELSE Head(tensors) \o Cat(Tail(tensors))

\* [out['predictions']['finetune'] for out in outputs]
PredictionsOf(outputs) == [i \in 1..Len(outputs) |-> outputs[i].predictions.finetune]
\* [out['labels']['finetune'] for out in outputs]
LabelsOf(outputs) == [i \in 1..Len(outputs) |-> outputs[i].labels.finetune]

\* self.evaluate_losses(labels, predictions): raises, or returns {task name: loss}
LossValues == {Num(3)}
EvaluateLossesOutcomes ==
    {[raises |-> TRUE, losses |-> <<>>]}
    \cup {[raises |-> FALSE, losses |-> <<Entry("finetune", v)>>] : v \in LossValues}

\* torch.sum(torch.stack(list(losses.values())))
RECURSIVE SumValues(_)
SumValues(d) == IF d = <<>> THEN 0 ELSE Head(d).val.tenths + SumValues(Tail(d))
TotalLoss(losses) == Num(SumValues(losses))

\* os.path.dirname, os.path.join on paths as component sequences
dirname(p) == SubSeq(p, 1, Len(p) - 1)
join(d, name) == Append(d, name)

CkptPaths == {<<"runs", "last.ckpt">>, <<"last.ckpt">>}
MetricsFiles == {join(dirname(p), "metrics.json") : p \in CkptPaths}
                    \cup {join(p, "metrics.json") : p \in CkptPaths}
NoFile == <<>>

NoRet == [kind |-> "none"]

\* a faulty variant: the accumulator is cleared whether or not the call got to its end
AccumulatorClearedAnyway(outputs, status) == <<>>

\* self.test_step_outputs.clear() is the statement before the return: it runs when
\* nothing before it raised, and not otherwise
AccumulatorAfter(outputs, status) == IF status = "ok" THEN <<>> ELSE outputs

\* a faulty variant: the file is put in a directory named like the checkpoint file
MetricsPathNoDirname(ckpt) == Append(ckpt, "metrics.json")

\* os.path.join(os.path.dirname(self.trainer.ckpt_path), 'metrics.json')
MetricsPath(ckpt) == join(dirname(ckpt), "metrics.json")

\* on_test_epoch_end up to its last log_dict, on an accumulator `outputs`: how it ends,
\* what is on disk afterwards, what it returns and what evaluate_metrics was given.
EpochEnd(outputs, mode, lib, ckpt, disk, lossOut, ioOk) ==
    LET base == [status |-> "raised", exc |-> "", disk |-> disk,
                 ret |-> NoRet, evaluated |-> FALSE, labels |-> <<>>, predictions |-> <<>>,
                 metrics |-> <<>>]
    IN
    IF outputs = <<>>
    THEN [base EXCEPT !.exc = "RuntimeError: torch.cat of an empty list"]
    ELSE
    LET all_predictions == Cat(PredictionsOf(outputs))
        all_labels == Cat(LabelsOf(outputs))
    IN
    IF lossOut.raises
    THEN [base EXCEPT !.exc = "evaluate_losses raised"]
    ELSE
    LET losses == lossOut.losses
        loss == TotalLoss(losses)
        metrics == evaluate_metrics(mode, lib)
        tensorboard_logs == <<Entry("test_loss", loss)>> \o losses
        seen == [base EXCEPT !.evaluated = TRUE, !.labels = all_labels,
                             !.predictions = all_predictions, !.metrics = metrics]
    IN
    IF ~ckpt.some
    THEN [seen EXCEPT !.exc = "TypeError: dirname(None)"]
    ELSE IF ~ioOk
    THEN [seen EXCEPT !.exc = "OSError: open"]
    ELSE [seen EXCEPT
            !.status = "ok",
            !.disk = [disk EXCEPT ![MetricsPath(ckpt.path)] = JsonDump(metrics, JsonIndent)],
            !.ret = [kind |-> "summary", loss |-> loss, metrics |-> metrics,
                     test_loss |-> loss, log |-> tensorboard_logs]]

NoEval == [called |-> FALSE, labels |-> <<>>, predictions |-> <<>>, metrics |-> <<>>,
           pass |-> <<>>]

----------------------------------------------------------------------------
(* The hooks as the trainer, or any caller, invokes them *)

\* trainer.test(model, ckpt_path=...): sets trainer.ckpt_path and asks the model for
\* its test dataloader
TrainerTest ==
    \E p \in {NoPath} \cup {SomePath(q) : q \in CkptPaths} :
        /\ ckpt_path' = p
        /\ pending' = test_dataloader(testSize)
        /\ last' = [op |-> "test_dataloader", status |-> "ok", exc |-> ""]
        /\ ret' = [kind |-> "loader", batches |-> test_dataloader(testSize)]
        /\ outputsAtCall' = test_step_outputs
        /\ evalCall' = NoEval
        /\ UNCHANGED <<testSize, metricLib, test_step_outputs, files, passLog>>

test_step ==
    /\ pending # <<>>
    /\ Len(test_step_outputs) < MaxRecords
    /\ LET outputs == StepOutputs(Batch(Head(pending)))
       IN /\ test_step_outputs' = Append(test_step_outputs, outputs)
          /\ ret' = [kind |-> "step", outputs |-> outputs]
    /\ pending' = Tail(pending)
    /\ last' = [op |-> "test_step", status |-> "ok", exc |-> ""]
    /\ outputsAtCall' = test_step_outputs
    /\ passLog' = Append(passLog, Head(pending))
    /\ evalCall' = NoEval
    /\ UNCHANGED <<testSize, metricLib, ckpt_path, files>>

on_test_epoch_end ==
    \E lossOut \in EvaluateLossesOutcomes, ioOk \in BOOLEAN :
        LET r == EpochEnd(test_step_outputs, hparams.mode, metricLib, ckpt_path, files,
                          lossOut, ioOk)
        IN /\ test_step_outputs' = AccumulatorAfter(test_step_outputs, r.status)
           /\ files' = r.disk
           /\ ret' = r.ret
           /\ last' = [op |-> "on_test_epoch_end", status |-> r.status, exc |-> r.exc]
           /\ evalCall' = IF r.evaluated
                          THEN [called |-> TRUE, labels |-> r.labels,
                                predictions |-> r.predictions, metrics |-> r.metrics,
                                pass |-> passLog]
                          ELSE NoEval
           /\ outputsAtCall' = test_step_outputs
           /\ passLog' = <<>>
           /\ UNCHANGED <<testSize, metricLib, pending, ckpt_path>>

----------------------------------------------------------------------------
(* get_config *)

Truthy(v) == v.attr /\ v.set /\ v.n # 0

\* a faulty variant: the two presets are exchanged
PresetSwapped(tiny) ==
    IF tiny
    THEN [hidden_size |-> 768, num_hidden_layers |-> 12, num_attention_heads |-> 12,
          intermediate_size |-> 3072]
    ELSE [hidden_size |-> 16, num_hidden_layers |-> 2, num_attention_heads |-> 2,
          intermediate_size |-> 32]

\* the architecture arguments of the two BertConfigExtras calls
Preset(tiny) ==
    IF tiny
    THEN [hidden_size |-> 16, num_hidden_layers |-> 2, num_attention_heads |-> 2,
          intermediate_size |-> 32]
    ELSE [hidden_size |-> 768, num_hidden_layers |-> 12, num_attention_heads |-> 12,
          intermediate_size |-> 3072]

\* if not hasattr(self.hparams, 'vocab_size') or not self.hparams.vocab_size:
\*     self.hparams.vocab_size = 42
DefaultedVocab(v) ==
    IF ~v.attr \/ ~Truthy(v) THEN [attr |-> TRUE, set |-> TRUE, n |-> DefaultVocabSize] ELSE v

\* get_config on hparams hp: the hparams afterwards and the config returned
get_config(hp) ==
    LET hp2 == [hp EXCEPT !.vocab_size = DefaultedVocab(hp.vocab_size)]
        arch == Preset(hp2.tiny)
    IN [hparams |-> hp2,
        config |-> [vocab_size |-> hp2.vocab_size.n,
                    hidden_size |-> arch.hidden_size,
                    num_hidden_layers |-> arch.num_hidden_layers,
                    num_attention_heads |-> arch.num_attention_heads,
                    intermediate_size |-> arch.intermediate_size,
                    max_position_embeddings |-> hp2.max_position_embeddings,
                    mode |-> hp2.mode,
                    output_size |-> hp2.output_size,
                    label_column |-> hp2.label_column]]

NoConfig == [built |-> FALSE]

GetConfig ==
    LET r == get_config(hparams)
    IN /\ hparams' = r.hparams
       /\ config' = [built |-> TRUE, value |-> r.config, given |-> hparams]

----------------------------------------------------------------------------
(* BaseMolbertApp.run *)

NotImplementedError == "NotImplementedError"

\* a faulty variant: the base class hook returns no model instead of raising
get_model_returns_none(a, ns) == [raises |-> FALSE, exc |-> "", model |-> "None"]

\* self.get_model(args): the subclass's model, or the base class's raise
get_model(a, ns) ==
    IF a.overrides_get_model
    THEN [raises |-> FALSE, exc |-> "", model |-> "model"]
    ELSE [raises |-> TRUE, exc |-> NotImplementedError, model |-> "None"]

\* self.add_parser_arguments(parser): the parser with the subclass's options, or the
\* base class's raise
add_parser_arguments(a, parser) ==
    IF a.overrides_add_parser_arguments
    THEN [raises |-> FALSE, exc |-> "", parser |-> Append(parser, "model options")]
    ELSE [raises |-> TRUE, exc |-> NotImplementedError, parser |-> parser]

\* get_default_parser()
DefaultParser == <<"default options">>

Call(name, a) == [call |-> name, arg |-> a]
Calls(es) == [i \in 1..Len(es) |-> es[i].call]
NoArg == [none |-> TRUE]

\* the argument lists run is given: the values of the options, or a malformed list
Argvs ==
    [malformed : {FALSE}, seed : {1, 42}, gpus : {0, 2}, wandb : BOOLEAN,
     resume_from_checkpoint : {NoPath, SomePath(<<"runs", "last.ckpt">>)}]
    \cup {[malformed |-> TRUE, seed |-> 1, gpus |-> 0, wandb |-> FALSE,
           resume_from_checkpoint |-> NoPath]}

\* parser.parse_args(args=args): the Namespace of a well-formed argument list
ParseArgs(parser, argv) ==
    [parsed |-> TRUE, seed |-> argv.seed, gpus |-> argv.gpus, wandb |-> argv.wandb,
     resume_from_checkpoint |-> argv.resume_from_checkpoint, parser |-> parser]

\* Trainer(..., devices="auto" if args.gpus == 0 else args.gpus, ...,
\*         callbacks=[lr_logger, checkpoint_callback],
\*         logger=WandbLogger() if args.wandb else None)
TrainerArgs(ns) ==
    [devices |-> IF ns.gpus = 0 THEN [auto |-> TRUE, n |-> 0] ELSE [auto |-> FALSE, n |-> ns.gpus],
     callbacks |-> <<"LearningRateMonitor",
                     [monitor |-> "valid_loss", verbose |-> TRUE, save_last |-> TRUE]>>,
     logger |-> IF ns.wandb THEN "WandbLogger" ELSE "None"]

\* a faulty variant: the fit loop is started without the checkpoint to resume from
FitArgsNoResume(model, ns) == [model |-> model, ckpt_path |-> NoPath]

\* trainer.fit(model, ckpt_path=args.resume_from_checkpoint)
FitArgs(model, ns) == [model |-> model, ckpt_path |-> ns.resume_from_checkpoint]

NoRun == [status |-> "none", exc |-> "", value |-> "None"]
Raised(e) == [status |-> "raised", exc |-> e, value |-> "None"]

\* app = SomeApp(): a class with or without each of the two hooks
Construct ==
    /\ ~app.constructed
    /\ \E g \in BOOLEAN, p \in BOOLEAN :
          app' = [constructed |-> TRUE, overrides_get_model |-> g,
                  overrides_add_parser_arguments |-> p]
    /\ UNCHANGED <<pc, args, events, runResult>>

\* args = self.parse_args(args)
RunParseArgs ==
    /\ app.constructed /\ pc = "idle" /\ runResult.status = "none"
    /\ \E argv \in Argvs :
          LET added == add_parser_arguments(app, DefaultParser)
              e1 == <<Call("get_default_parser", NoArg), Call("add_parser_arguments", NoArg)>>
          IN IF added.raises
             THEN /\ events' = e1
                  /\ runResult' = Raised(added.exc)
                  /\ UNCHANGED <<pc, args>>
             ELSE IF argv.malformed
             THEN /\ events' = Append(e1, Call("parse_args", NoArg))
                  /\ runResult' = Raised("SystemExit")
                  /\ UNCHANGED <<pc, args>>
             ELSE /\ events' = Append(e1, Call("parse_args", NoArg))
                  /\ args' = ParseArgs(added.parser, argv)
                  /\ pc' = "seed_everything"
                  /\ UNCHANGED runResult
    /\ UNCHANGED app

\* seed_everything(args.seed)
RunSeed ==
    /\ pc = "seed_everything"
    /\ events' = Append(events, Call("seed_everything", [seed |-> args.seed]))
    /\ pc' = "Trainer"
    /\ UNCHANGED <<app, args, runResult>>

\* checkpoint_callback, lr_logger, trainer = Trainer(...)
RunTrainer ==
    /\ pc = "Trainer"
    /\ events' = Append(events, Call("Trainer", TrainerArgs(args)))
    /\ pc' = "get_model"
    /\ UNCHANGED <<app, args, runResult>>

\* model = self.get_model(args)
RunGetModel ==
    /\ pc = "get_model"
    /\ LET got == get_model(app, args)
       IN IF got.raises
          THEN /\ events' = Append(events, Call("get_model", NoArg))
               /\ runResult' = Raised(got.exc)
               /\ pc' = "idle"
          ELSE /\ events' = Append(events, Call("get_model", [model |-> got.model]))
               /\ pc' = "fit"
               /\ UNCHANGED runResult
    /\ UNCHANGED <<app, args>>

\* trainer.fit(model, ckpt_path=args.resume_from_checkpoint), which returns or raises
RunFit ==
    /\ pc = "fit"
    /\ \E fitOk \in BOOLEAN :
          /\ events' = Append(events, Call("fit", FitArgs(events[Len(events)].arg.model, args)))
          /\ IF fitOk
             THEN pc' = "return" /\ UNCHANGED runResult
             ELSE pc' = "idle" /\ runResult' = Raised("fit raised")
    /\ UNCHANGED <<app, args>>

\* return trainer
RunReturn ==
    /\ pc = "return"
    /\ runResult' = [status |-> "returned", exc |-> "", value |-> "trainer"]
    /\ pc' = "idle"
    /\ UNCHANGED <<app, args, events>>

----------------------------------------------------------------------------
(* BaseMolbertApp.load_model_weights *)

ParamKeys == {"bert.embeddings", "tasks.finetune.head", "tasks.masked_lm.head"}
\* the value every parameter of a freshly built model has, and the one a checkpoint holds
FreshValue == "fresh"
StoredValue == "stored"

\* model.load_state_dict(state_dict, strict): what the parameters are afterwards, and
\* whether it raises (strict, and a key of either side missing from the other)
load_state_dict(p, state_dict, strict) ==
    [params |-> [k \in DOMAIN p |-> IF k \in DOMAIN state_dict THEN state_dict[k] ELSE p[k]],
     raises |-> strict /\ DOMAIN p # DOMAIN state_dict]

\* a faulty variant: the weights are loaded strictly
load_model_weights_strict(p, checkpoint) ==
    IF ~checkpoint.exists
    THEN [status |-> "raised", exc |-> "FileNotFoundError", params |-> p]
    ELSE LET r == load_state_dict(p, checkpoint.state_dict, TRUE)
         IN [status |-> IF r.raises THEN "raised" ELSE "returned",
             exc |-> IF r.raises THEN "RuntimeError" ELSE "", params |-> r.params]

\* load_model_weights(model, checkpoint_file) on a model whose parameters are p and a
\* checkpoint file that exists or not
load_model_weights(p, checkpoint) ==
    IF ~checkpoint.exists
    THEN [status |-> "raised", exc |-> "FileNotFoundError", params |-> p]
    ELSE LET r == load_state_dict(p, checkpoint.state_dict, FALSE)
         IN [status |-> IF r.raises THEN "raised" ELSE "returned",
             exc |-> IF r.raises THEN "RuntimeError" ELSE "", params |-> r.params]

StateDicts(values) == UNION {[ks -> values] : ks \in SUBSET ParamKeys}
CheckpointFiles ==
    {[exists |-> TRUE, state_dict |-> sd] : sd \in StateDicts({StoredValue})}
    \cup {[exists |-> FALSE, state_dict |-> <<>>]}

NoLoad == [called |-> FALSE]

LoadModelWeights ==
    \E checkpoint \in CheckpointFiles :
        LET r == load_model_weights(params, checkpoint)
        IN /\ params' = r.params
           /\ lmw' = [called |-> TRUE, status |-> r.status, exc |-> r.exc,
                      before |-> params, checkpoint |-> checkpoint,
                      model |-> "model", returned |-> IF r.status = "returned" THEN "model" ELSE "None"]

----------------------------------------------------------------------------
(* Specifications *)

Modes == {"classification", "regression"}
\* an empty test partition, one smaller than a batch, one that fills a batch exactly
\* and one that exceeds it
DatasetSizes == {0, 1, BatchSize, BatchSize + 1}

FixedHparams(mode) ==
    [tiny |-> TRUE, vocab_size |-> [attr |-> TRUE, set |-> TRUE, n |-> DefaultVocabSize],
     mode |-> mode, output_size |-> IF mode = "classification" THEN 2 ELSE 1,
     label_column |-> "activity", max_position_embeddings |-> 512]

HooksIdle ==
    /\ testSize = 0
    /\ metricLib = [n \in MetricNameSet("regression") |-> [raises |-> FALSE, val |-> MetricValue(n)]]
    /\ pending = <<>>
    /\ ckpt_path = NoPath
    /\ test_step_outputs = <<>>
    /\ files = [f \in MetricsFiles |-> NoFile]
    /\ last = [op |-> "init", status |-> "ok", exc |-> ""]
    /\ ret = NoRet
    /\ evalCall = NoEval
    /\ outputsAtCall = <<>>
    /\ passLog = <<>>

ConfigIdle ==
    /\ hparams = FixedHparams("regression")
    /\ config = NoConfig

RunIdle ==
    /\ app = [constructed |-> FALSE, overrides_get_model |-> FALSE,
              overrides_add_parser_arguments |-> FALSE]
    /\ pc = "idle"
    /\ args = [parsed |-> FALSE]
    /\ events = <<>>
    /\ runResult = NoRun

WeightsIdle ==
    /\ params = <<>>
    /\ lmw = NoLoad

\* the test-time hooks of one model
Init ==
    /\ \E mode \in Modes :
          /\ hparams = FixedHparams(mode)
          /\ metricLib \in MetricLibs(mode)
    /\ config = NoConfig
    /\ testSize \in DatasetSizes
    /\ pending = <<>>
    /\ ckpt_path = NoPath
    /\ test_step_outputs = <<>>
    /\ files = [f \in MetricsFiles |-> NoFile]
    /\ last = [op |-> "init", status |-> "ok", exc |-> ""]
    /\ ret = NoRet
    /\ evalCall = NoEval
    /\ outputsAtCall = <<>>
    /\ passLog = <<>>
    /\ RunIdle
    /\ WeightsIdle

Next ==
    \/ TrainerTest /\ UNCHANGED configVars /\ UNCHANGED appVars
    \/ test_step /\ UNCHANGED configVars /\ UNCHANGED appVars
    \/ on_test_epoch_end /\ UNCHANGED configVars /\ UNCHANGED appVars

Spec == Init /\ [][Next]_vars

\* get_config on the hparams a command line can give
VocabSizes ==
    {[attr |-> FALSE, set |-> FALSE, n |-> 0], [attr |-> TRUE, set |-> FALSE, n |-> 0],
     [attr |-> TRUE, set |-> TRUE, n |-> 0], [attr |-> TRUE, set |-> TRUE, n |-> 30],
     [attr |-> TRUE, set |-> TRUE, n |-> DefaultVocabSize]}

InitConfig ==
    /\ hparams \in [tiny : BOOLEAN, vocab_size : VocabSizes, mode : Modes,
                    output_size : {1, 2}, label_column : {"activity", "logP"},
                    max_position_embeddings : {128, 512}]
    /\ config = NoConfig
    /\ HooksIdle
    /\ RunIdle
    /\ WeightsIdle

NextConfig == GetConfig /\ UNCHANGED modelVars /\ UNCHANGED appVars

SpecConfig == InitConfig /\ [][NextConfig]_vars

\* one application object and its run
InitRun ==
    /\ ConfigIdle
    /\ HooksIdle
    /\ RunIdle
    /\ WeightsIdle

NextRun ==
    \/ Construct /\ UNCHANGED <<params, lmw>> /\ UNCHANGED configVars /\ UNCHANGED modelVars
    \/ RunParseArgs /\ UNCHANGED <<params, lmw>> /\ UNCHANGED configVars /\ UNCHANGED modelVars
    \/ RunSeed /\ UNCHANGED <<params, lmw>> /\ UNCHANGED configVars /\ UNCHANGED modelVars
    \/ RunTrainer /\ UNCHANGED <<params, lmw>> /\ UNCHANGED configVars /\ UNCHANGED modelVars
    \/ RunGetModel /\ UNCHANGED <<params, lmw>> /\ UNCHANGED configVars /\ UNCHANGED modelVars
    \/ RunFit /\ UNCHANGED <<params, lmw>> /\ UNCHANGED configVars /\ UNCHANGED modelVars
    \/ RunReturn /\ UNCHANGED <<params, lmw>> /\ UNCHANGED configVars /\ UNCHANGED modelVars

SpecRun == InitRun /\ [][NextRun]_vars

\* load_model_weights on a model with any of the parameters, freshly built
InitWeights ==
    /\ ConfigIdle
    /\ HooksIdle
    /\ RunIdle
    /\ params \in StateDicts({FreshValue})
    /\ lmw = NoLoad

NextWeights ==
    LoadModelWeights /\ UNCHANGED <<app, pc, args, events, runResult>>
                     /\ UNCHANGED configVars /\ UNCHANGED modelVars

SpecWeights == InitWeights /\ [][NextWeights]_vars

----------------------------------------------------------------------------
(* Properties *)

IsEpochEnd == last.op = "on_test_epoch_end"
EpochEndReturned == IsEpochEnd /\ last.status = "ok"
EpochEndRaised == IsEpochEnd /\ last.status = "raised"

\* C1: what an on_test_epoch_end call aggregates and reports is exactly what
\* test_step appended since the on_test_epoch_end call before it, batch by batch and
\* in that order, and the accumulator is empty afterwards: nothing of an earlier pass
\* is carried over into a later one, also when on_test_epoch_end is called twice in
\* a row.
C1_NoCarryOver ==
    EpochEndReturned =>
          /\ test_step_outputs = <<>>
          /\ evalCall.predictions =
                [i \in 1..Len(evalCall.pass) |-> Run("y_hat", evalCall.pass[i].lo, evalCall.pass[i].hi)]
          /\ evalCall.labels =
                [i \in 1..Len(evalCall.pass) |-> Run("label", evalCall.pass[i].lo, evalCall.pass[i].hi)]

\* C2: whichever metrics raise, evaluate_metrics returns a mapping with exactly the
\* four metric names of the mode, NaN for each metric that raised and the computed
\* value for each one that did not.
C2_MetricsIsolated ==
    evalCall.called =>
        /\ Len(evalCall.metrics) = 4
        /\ KeySet(evalCall.metrics) = MetricNameSet(hparams.mode)
        /\ \A n \in MetricNameSet(hparams.mode) :
              Get(evalCall.metrics, n) = IF metricLib[n].raises THEN NaN ELSE metricLib[n].val

C2_Witness ==
    /\ evalCall.called
    /\ \E n \in MetricNameSet(hparams.mode) : metricLib[n].raises
    /\ \E n \in MetricNameSet(hparams.mode) : ~metricLib[n].raises

C4_SingleBatch ==
    (last.op = "test_dataloader" /\ testSize > 0) =>
        /\ Len(ret.batches) = 1
        /\ ret.batches[1] = [lo |-> 1, hi |-> testSize]

RECURSIVE RunsBefore(_, _)
RunsBefore(records, r) ==
    IF r <= 1 THEN 0 ELSE RunsBefore(records, r - 1) + Len(records[r - 1].predictions.finetune)

\* C5: test_step appends one record, the one it returns, to the accumulator; and the
\* predictions and the labels on_test_epoch_end aggregates are those of the records
\* the accumulator held, record after record in the order they were appended, the
\* i-th prediction and the i-th label being those of the same example.
C5_OrderedAggregation ==
    /\ last.op = "test_step" =>
          /\ Len(test_step_outputs) = Len(outputsAtCall) + 1
          /\ SubSeq(test_step_outputs, 1, Len(outputsAtCall)) = outputsAtCall
          /\ test_step_outputs[Len(test_step_outputs)] = ret.outputs
    /\ evalCall.called =>
          LET P == evalCall.predictions
              L == evalCall.labels
          IN /\ Len(P) = RunsBefore(outputsAtCall, Len(outputsAtCall) + 1)
             /\ Len(L) = Len(P)
             /\ \A r \in 1..Len(outputsAtCall) :
                   /\ \A k \in 1..Len(outputsAtCall[r].predictions.finetune) :
                         P[RunsBefore(outputsAtCall, r) + k] = outputsAtCall[r].predictions.finetune[k]
                   /\ \A k \in 1..Len(outputsAtCall[r].labels.finetune) :
                         L[RunsBefore(outputsAtCall, r) + k] = outputsAtCall[r].labels.finetune[k]
             /\ TLen(P) = TLen(L)
             /\ \A k \in 1..Len(P) :
                   /\ P[k].of = "y_hat" /\ L[k].of = "label"
                   /\ P[k].lo = L[k].lo /\ P[k].hi = L[k].hi
             /\ TLen(P) > 0 =>
                   /\ Row(P, 1)[2] = Row(L, 1)[2]
                   /\ Row(P, TLen(P))[2] = Row(L, TLen(L))[2]

C5_Witness ==
    /\ evalCall.called
    /\ Len(outputsAtCall) = 2
    /\ outputsAtCall[1] # outputsAtCall[2]
    /\ TLen(evalCall.predictions) = BatchSize + 1

\* C6: get_config gives the tiny preset when tiny is set and the full preset when it
\* is not, whatever the other arguments; the vocabulary size is the given one when
\* one is given (present, not None, not 0) and 42 otherwise; mode, output size,
\* label column and max position embeddings are those of the arguments.
C6_ConfigPresets ==
    config.built =>
        LET g == config.given
            c == config.value
        IN /\ g.tiny =>
                 /\ c.hidden_size = 16 /\ c.num_hidden_layers = 2
                 /\ c.num_attention_heads = 2 /\ c.intermediate_size = 32
           /\ ~g.tiny =>
                 /\ c.hidden_size = 768 /\ c.num_hidden_layers = 12
                 /\ c.num_attention_heads = 12 /\ c.intermediate_size = 3072
           /\ c.vocab_size =
                 IF g.vocab_size.attr /\ g.vocab_size.set /\ g.vocab_size.n # 0
                 THEN g.vocab_size.n ELSE 42
           /\ hparams.vocab_size.attr /\ hparams.vocab_size.set
           /\ hparams.vocab_size.n = c.vocab_size
           /\ c.mode = g.mode
           /\ c.output_size = g.output_size
           /\ c.label_column = g.label_column
           /\ c.max_position_embeddings = g.max_position_embeddings

C6_Witness ==
    /\ config.built
    /\ ~config.given.tiny
    /\ config.given.vocab_size.n = 30
    /\ config.value.hidden_size = 768

HasCall(name) == \E i \in 1..Len(events) : events[i].call = name

\* C7: an application whose class lacks a hook is constructed all the same; run then
\* ends in NotImplementedError when it calls the missing hook, for
\* add_parser_arguments while parsing the arguments and before any seeding, for
\* get_model after the trainer is built, and trainer.fit is never called.
C7_MissingHookFailsAtCall ==
    /\ (app.constructed /\ ~app.overrides_add_parser_arguments /\ runResult.status # "none") =>
          /\ runResult = Raised(NotImplementedError)
          /\ Calls(events) = <<"get_default_parser", "add_parser_arguments">>
    /\ (app.constructed /\ app.overrides_add_parser_arguments /\ ~app.overrides_get_model
            /\ runResult.status # "none") =>
          /\ runResult.status = "raised"
          /\ runResult.exc \in {NotImplementedError, "SystemExit"}
          /\ runResult.exc = NotImplementedError =>
                Calls(events) = <<"get_default_parser", "add_parser_arguments", "parse_args",
                                  "seed_everything", "Trainer", "get_model">>
    /\ HasCall("fit") => (app.overrides_get_model /\ app.overrides_add_parser_arguments)
    /\ (HasCall("seed_everything") \/ pc # "idle") => app.overrides_add_parser_arguments

C7_Witness ==
    /\ app.constructed
    /\ app.overrides_add_parser_arguments /\ ~app.overrides_get_model
    /\ runResult = Raised(NotImplementedError)
    /\ HasCall("Trainer")

\* C8: when load_model_weights is given a checkpoint file that exists it returns the
\* model it was given, whose parameters are the ones it had: each with the
\* checkpoint's value if the checkpoint has its key and with its prior value if not;
\* a checkpoint key the model lacks adds nothing, and no difference between the two
\* key sets raises.
C8_PartialLoad ==
    lmw.called =>
        /\ lmw.status = "raised" => ~lmw.checkpoint.exists
        /\ lmw.checkpoint.exists =>
              /\ lmw.status = "returned"
              /\ lmw.returned = lmw.model
              /\ DOMAIN params = DOMAIN lmw.before
              /\ \A k \in DOMAIN params :
                    params[k] = IF k \in DOMAIN lmw.checkpoint.state_dict
                                THEN lmw.checkpoint.state_dict[k]
                                ELSE lmw.before[k]

C8_Witness ==
    /\ lmw.called /\ lmw.status = "returned"
    /\ \E k \in DOMAIN params : k \in DOMAIN lmw.checkpoint.state_dict /\ params[k] # lmw.before[k]
    /\ \E k \in DOMAIN params : k \notin DOMAIN lmw.checkpoint.state_dict
    /\ \E k \in DOMAIN lmw.checkpoint.state_dict : k \notin DOMAIN params

\* C9: a run that returns has parsed the arguments, then seeded with args.seed, then
\* built the trainer, then obtained the model from get_model, then called
\* trainer.fit once, with that model and ckpt_path = args.resume_from_checkpoint,
\* and returns the trainer.
C9_RunOrder ==
    runResult.status = "returned" =>
        /\ Calls(events) = <<"get_default_parser", "add_parser_arguments", "parse_args",
                             "seed_everything", "Trainer", "get_model", "fit">>
        /\ args.parsed
        /\ args.parser = <<"default options", "model options">>
        /\ events[4].arg.seed = args.seed
        /\ events[7].arg.model = events[6].arg.model
        /\ events[7].arg.model = "model"
        /\ events[7].arg.ckpt_path = args.resume_from_checkpoint
        /\ runResult.value = "trainer"

C9_Witness ==
    /\ runResult.status = "returned"
    /\ args.resume_from_checkpoint.some
    /\ args.seed = 42

\* C10: an on_test_epoch_end call that raises, at whichever step, leaves the
\* accumulator holding exactly the records it held when the call began; one that
\* returns leaves it empty.
C10_ClearIsLast ==
    /\ EpochEndRaised => test_step_outputs = outputsAtCall
    /\ EpochEndReturned => test_step_outputs = <<>>

C10_Witness ==
    /\ EpochEndRaised
    /\ last.exc = "OSError: open"
    /\ Len(test_step_outputs) = 2

====
